---- MODULE Spec2Model ----
(***************************************************************************)
(* The synthesis-request handler of webui.py: the generator                *)
(* generate_audio (validation checks, placeholder yields, dispatch to one  *)
(* of the four engine operations, relay of the engine's chunks), the       *)
(* reference-audio post-processing it applies, and the request queue       *)
(* demo.queue(max_size=4, default_concurrency_limit=2) that runs it.       *)
(*                                                                         *)
(* Amplitudes are integers in units of 0.1 (max_val 0.8 is 8).  Sample     *)
(* rates of the engine, and the frame and hop lengths of the trim, are     *)
(* scaled down; file sample rates keep their values in Hz.                 *)
(***************************************************************************)
EXTENDS Integers, Sequences, FiniteSets, TLC

VARIABLES
    instruct,   \* cosyvoice.instruct, the engine capability flag (fixed after load)
    req,        \* req[r]: the ten arguments generate_audio is called with
    queue,      \* the event queue of demo.queue: requests waiting, in arrival order
    pc,         \* pc[r]: where request r's generator stands
    vi,         \* vi[r]: the next validation check request r's generator evaluates
    diag,       \* diag[r]: the gr.Warning / gr.Info messages raised so far, in order
    out,        \* out[r]: the chunks yielded to the caller so far, in order
    raw,        \* raw[r]: the raw chunks the engine generator has produced so far
    call,       \* call[r]: the engine operation invoked and its arguments
    err,        \* err[r]: where an exception left the generator ("none" if none did)
    log,        \* log[r]: the operations request r has performed, in order
    speech,     \* speech[r]: prompt_speech_16k of request r
    rng,        \* the engine's global random state: last seed and draws since
    conn,       \* conn[r]: the caller of request r is still consuming its stream
    wave,       \* the waveform handed to postprocess
    passes,     \* the waveforms successive calls of postprocess have returned
    perr,       \* a call of postprocess has raised
    field,      \* the prompt_text box of the page
    rec         \* the last call of prompt_wav_recognition: its input and outcome

helperVars == <<wave, passes, perr, field, rec>>

vars == <<instruct, req, queue, pc, vi, diag, out, raw, call, err, log, speech, rng,
          conn, helperVars>>

(* ------------------------------ bounds --------------------------------- *)

NumReq == 7
NumConc == 3
MaxChunks == 2
MaxLen == 3
MaxPasses == 2
sample_rate == 5
hop_length == 1
win_length == 2

Req == 1..NumReq

(* --------------------------- program constants ------------------------- *)

max_val == 8
top_db == 60
prompt_sr == 16000
max_size == 4
default_concurrency_limit == 2

None == "None"

pretrained_voice == "pretrained_voice"
fast_replication == "3s_fast_replication"
crosslingual == "crosslingual"
natural_language_control == "natural_language_control"

inference_mode_list ==
    <<pretrained_voice, fast_replication, crosslingual, natural_language_control>>

(* ------------------------------ inputs --------------------------------- *)

SeedSet == {7, 42}
UploadSet == {None, "lo.wav", "hi.wav"}
RecordSet == {None, "lo.wav", "soft.wav"}

\* The audio files the paths name: native sample rate and content.
FileRate(path) ==
    CASE path = "lo.wav" -> 8000
      [] path = "hi.wav" -> 16000
      [] path = "soft.wav" -> 48000

FileSamples(path) ==
    CASE path = "lo.wav" -> <<0, 4, 0>>
      [] path = "hi.wav" -> <<0, -16, 4>>
      [] path = "soft.wav" -> <<4, 0>>

Requests ==
    [tts_text : {"hello"},
     mode_checkbox_group : {inference_mode_list[i] : i \in 1..Len(inference_mode_list)},
     sft_dropdown : {"", "spk"},
     prompt_text : {"", "hi"},
     prompt_wav_upload : UploadSet,
     prompt_wav_record : RecordSet,
     instruct_text : {"", "calm"},
     seed : SeedSet,
     stream : BOOLEAN,
     speed : {1, 2}]

(* ------------------------- audio post-processing ----------------------- *)

Abs(x) == IF x < 0 THEN -x ELSE x

Zeros(n) == [i \in 1..n |-> 0]

MaxOf(S) == CHOOSE x \in S : \A y \in S : y <= x
MinOf(S) == CHOOSE x \in S : \A y \in S : x <= y

\* The frame f (from 0) of the centred framing: the padded signal has
\* win_length \div 2 zeros in front, frame f starts hop_length * f into it.
FrameEnergy(y, f) ==
    LET pad == win_length \div 2
        At(k) == IF k \in 1..Len(y) THEN y[k] ELSE 0
        Sq[j \in 0..win_length] ==
            IF j = 0 THEN 0
            ELSE Sq[j - 1] + At(f * hop_length - pad + j) * At(f * hop_length - pad + j)
    IN  Sq[win_length]

NumFrames(y) == 1 + (Len(y) + 2 * (win_length \div 2) - win_length) \div hop_length

\* Frames whose energy is within top_db decibels of the loudest frame.
NonSilent(y) ==
    LET F == 0..(NumFrames(y) - 1)
        ref == MaxOf({FrameEnergy(y, f) : f \in F})
    IN  {f \in F : IF ref = 0 THEN TRUE
                   ELSE FrameEnergy(y, f) * (10 ^ (top_db \div 10)) > ref}

trim(y) ==
    LET ns == NonSilent(y)
        start == IF ns = {} THEN 0 ELSE MinOf(ns) * hop_length
        stop == IF ns = {} THEN 0
                ELSE IF (MaxOf(ns) + 1) * hop_length < Len(y)
                     THEN (MaxOf(ns) + 1) * hop_length ELSE Len(y)
    IN  SubSeq(y, start + 1, stop)

PeakAbs(y) == MaxOf({Abs(y[i]) : i \in 1..Len(y)})

\* speech.abs().max() has nothing to reduce when trimming left no sample:
\* torch raises on the empty tensor.
PostRaises(y) == trim(y) = <<>>

\* The trimmed signal padded, the normalisation left out.
postprocessUnscaled(y) == trim(y) \o Zeros((sample_rate * 2) \div 10)

postprocess(y) ==
    LET t == trim(y)
        n == IF PeakAbs(t) > max_val
             THEN [i \in 1..Len(t) |-> (t[i] * max_val) \div PeakAbs(t)]
             ELSE t
    IN  n \o Zeros((sample_rate * 2) \div 10)

\* load_wav(path, prompt_sr): the file's content at prompt_sr.
load_wav(path) == FileSamples(path)

\* Whether load_wav can raise: it may refuse a file below the target rate.
LoadWavOutcomes(path) ==
    IF FileRate(path) < prompt_sr THEN {"ok", "raise"} ELSE {"ok"}

\* The waveforms handed to postprocess: up to MaxLen samples, silence, soft
\* samples (0.4), and loud ones (1.2, -1.6) on the scale where max_val is 8.
Amplitudes == {-16, 0, 4, 12}
Waves == UNION {[1..n -> Amplitudes] : n \in 0..MaxLen}

(* ----------------------------- transcription --------------------------- *)

\* res[0]["text"] of the recogniser, as the tokens of the string: tags closed
\* by "|>" and then the words.
AsrText(path) ==
    CASE path = "lo.wav" -> <<"<|en", "|>", "<|woitn", "|>", "hello">>
      [] path = "hi.wav" -> <<"hi", "there">>
      [] path = "soft.wav" -> <<"<|nospeech", "|>">>

\* text.split("|>")[-1]: what follows the last "|>", the whole text if none.
LastPart(text) ==
    LET seps == {i \in 1..Len(text) : text[i] = "|>"}
    IN  IF seps = {} THEN text ELSE SubSeq(text, MaxOf(seps) + 1, Len(text))

\* asr_model.generate returns, or fails on the file.
AsrOutcomes == {"ok", "failed"}

(* ------------------------------ validation ----------------------------- *)

\* The recording taken before the upload.
PromptWavRecordFirst(q) ==
    IF q.prompt_wav_record # None THEN q.prompt_wav_record
    ELSE IF q.prompt_wav_upload # None THEN q.prompt_wav_upload
    ELSE None

\* prompt_wav: the upload when there is one, else the recording, else None.
PromptWav(q) ==
    IF q.prompt_wav_upload # None THEN q.prompt_wav_upload
    ELSE IF q.prompt_wav_record # None THEN q.prompt_wav_record
    ELSE None

\* The checks of generate_audio in source order: the modes whose block holds
\* the check, the gradio call it makes, its message key, and whether the
\* placeholder (cosyvoice.sample_rate, default_data) is yielded after it.
Checks ==
    << [modes |-> {natural_language_control}, level |-> "Warning",
        key |-> "warnings.nlp_model_warn", yields |-> TRUE],
       [modes |-> {natural_language_control}, level |-> "Warning",
        key |-> "warnings.instruct_text", yields |-> TRUE],
       [modes |-> {natural_language_control}, level |-> "Info",
        key |-> "info.prompt_wav", yields |-> FALSE],
       [modes |-> {crosslingual}, level |-> "Warning",
        key |-> "warnings.no_crosslingual_support", yields |-> TRUE],
       [modes |-> {crosslingual}, level |-> "Info",
        key |-> "warnings.crosslingual_instruct_ignored", yields |-> FALSE],
       [modes |-> {crosslingual}, level |-> "Warning",
        key |-> "warnings.crosslingual_prompt_audio_required", yields |-> TRUE],
       [modes |-> {crosslingual}, level |-> "Info",
        key |-> "info.crosslingual_language_reminder", yields |-> FALSE],
       [modes |-> {fast_replication, crosslingual}, level |-> "Warning",
        key |-> "warnings.prompt_audio_empty", yields |-> TRUE],
       [modes |-> {fast_replication, crosslingual}, level |-> "Warning",
        key |-> "warnings.sample_rate_error", yields |-> TRUE],
       [modes |-> {pretrained_voice}, level |-> "Info",
        key |-> "info.pretrained_voice_warning", yields |-> FALSE],
       [modes |-> {pretrained_voice}, level |-> "Warning",
        key |-> "warnings.pretrained_model_empty", yields |-> TRUE],
       [modes |-> {fast_replication}, level |-> "Warning",
        key |-> "warnings.prompt_text_empty", yields |-> TRUE],
       [modes |-> {fast_replication}, level |-> "Info",
        key |-> "info.instruct_text_empty", yields |-> FALSE] >>

\* A block guarded by the mode alone, the check is outside every block.
InModeByEquality(i, q) == Checks[i].modes = {q.mode_checkbox_group}

\* "if mode_checkbox_group in [...]": request q is in a mode of check i's block.
InMode(i, q) == q.mode_checkbox_group \in Checks[i].modes

\* Evaluating check i raises: torchaudio.info(None) has no file to open.
CheckRaises(i, q) ==
    Checks[i].key = "warnings.sample_rate_error" /\ PromptWav(q) = None

\* The condition of check i (evaluated only in its modes, and only when it
\* does not raise).
CheckCond(i, q, ins) ==
    CASE i = 1 -> ins = FALSE
      [] i = 2 -> q.instruct_text = ""
      [] i = 3 -> PromptWav(q) # None \/ q.prompt_text # ""
      [] i = 4 -> ins = TRUE
      [] i = 5 -> q.instruct_text # ""
      [] i = 6 -> PromptWav(q) = None
      [] i = 7 -> TRUE
      [] i = 8 -> PromptWav(q) = None
      [] i = 9 -> FileRate(PromptWav(q)) < prompt_sr
      [] i = 10 -> q.instruct_text # "" \/ PromptWav(q) # None \/ q.prompt_text # ""
      [] i = 11 -> q.sft_dropdown = ""
      [] i = 12 -> q.prompt_text = ""
      [] i = 13 -> q.instruct_text # ""

\* default_data = np.zeros(cosyvoice.sample_rate), yielded with the rate.
Placeholder == <<sample_rate, Zeros(sample_rate)>>

\* The generator runs from check i until it yields, raises, or reaches the
\* dispatch: where it stops, the next check, and the messages raised on the way.
RECURSIVE Scan(_, _, _, _)
Scan(i, q, ins, msgs) ==
    IF i > Len(Checks) THEN [stop |-> "dispatch", vi |-> i, msgs |-> msgs]
    ELSE IF ~InMode(i, q) THEN Scan(i + 1, q, ins, msgs)
    ELSE IF CheckRaises(i, q) THEN [stop |-> "raise", vi |-> i, msgs |-> msgs]
    ELSE IF ~CheckCond(i, q, ins) THEN Scan(i + 1, q, ins, msgs)
    ELSE LET m == Append(msgs, [level |-> Checks[i].level, key |-> Checks[i].key])
         IN  IF Checks[i].yields
             THEN [stop |-> "yield", vi |-> i + 1, msgs |-> m]
             ELSE Scan(i + 1, q, ins, m)

(* ------------------------------- engine -------------------------------- *)

NoCall == [op |-> "none"]

\* Every mode dispatched as the pretrained-voice branch.
EngineCallAlwaysSft(q, sp) ==
    [op |-> "inference_sft", tts_text |-> q.tts_text, spk |-> q.sft_dropdown,
     stream |-> q.stream, speed |-> q.speed]

\* The engine operation generate_audio invokes for the mode, with its arguments.
EngineCall(q, sp) ==
    IF q.mode_checkbox_group = pretrained_voice
    THEN [op |-> "inference_sft", tts_text |-> q.tts_text, spk |-> q.sft_dropdown,
          stream |-> q.stream, speed |-> q.speed]
    ELSE IF q.mode_checkbox_group = fast_replication
    THEN [op |-> "inference_zero_shot", tts_text |-> q.tts_text,
          prompt_text |-> q.prompt_text, prompt_speech_16k |-> sp,
          stream |-> q.stream, speed |-> q.speed]
    ELSE IF q.mode_checkbox_group = crosslingual
    THEN [op |-> "inference_cross_lingual", tts_text |-> q.tts_text,
          prompt_speech_16k |-> sp, stream |-> q.stream, speed |-> q.speed]
    ELSE [op |-> "inference_instruct", tts_text |-> q.tts_text, spk |-> q.sft_dropdown,
          instruct_text |-> q.instruct_text, stream |-> q.stream, speed |-> q.speed]

\* Modes whose branch loads and post-processes the reference audio.
UsesPrompt(q) == q.mode_checkbox_group \in {fast_replication, crosslingual}

\* The raw chunk the engine synthesises from its random state: a dict whose
\* "tts_speech" is a one-row tensor.
RawChunk(g) == [tts_speech |-> << <<g.seed, g.draws>> >>]

\* i["tts_speech"].numpy().flatten(): the rows one after the other.
RECURSIVE Flatten(_)
Flatten(rows) == IF rows = <<>> THEN <<>> ELSE Head(rows) \o Flatten(Tail(rows))

\* default_data yielded in the loop in place of the engine's chunk.
YieldedDefault(c) == <<sample_rate, Zeros(sample_rate)>>

\* The chunk tagged with the rate of the prompt instead of the engine's.
YieldedAtPromptRate(c) == <<prompt_sr, Flatten(c.tts_speech)>>

\* The chunk yielded to the caller for raw chunk c.
Yielded(c) == <<sample_rate, Flatten(c.tts_speech)>>

\* set_all_random_seed(seed): the random state after seeding.
Seeded(seed) == [seed |-> seed, draws |-> 0]

\* The exception caught and the stream ended as if complete.
OnEngineErrorSwallowed == "done"

\* What the generator does with an exception of the engine: nothing catches
\* it, so it leaves the generator.
OnEngineError == "failed"

(* ------------------------------- state --------------------------------- *)

\* The generator of request r is suspended at a yield: it runs again only when
\* its consumer asks for the next chunk.
Suspended(r) ==
    /\ pc[r] \in {"validate", "pull"}
    /\ log[r] # <<>>
    /\ log[r][Len(log[r])] \in {"yield", "yield_default"}

\* A suspended generator resumed although nobody consumes its stream.
ResumedEager(r) == TRUE

\* The generator of request r can take its next step: it is running, or its
\* consumer is there to resume it.
Resumed(r) == conn[r] \/ ~Suspended(r)

Running == {r \in Req : pc[r] \in {"validate", "dispatch", "seed", "call", "pull", "emit"}}

Fresh(rs, present) ==
    /\ req = rs
    /\ queue = <<>>
    /\ pc = [r \in Req |-> IF r \in present THEN "new" ELSE "absent"]
    /\ vi = [r \in Req |-> 1]
    /\ diag = [r \in Req |-> <<>>]
    /\ out = [r \in Req |-> <<>>]
    /\ raw = [r \in Req |-> <<>>]
    /\ call = [r \in Req |-> NoCall]
    /\ err = [r \in Req |-> "none"]
    /\ log = [r \in Req |-> <<>>]
    /\ speech = [r \in Req |-> <<>>]
    /\ rng = [seed |-> 0, draws |-> 0]
    /\ conn = [r \in Req |-> TRUE]

\* No helper has been called: the prompt_text box is empty as built.
HelpersIdle ==
    /\ passes = <<>>
    /\ perr = FALSE
    /\ field = <<>>
    /\ rec = [wav |-> None, asr |-> "none", outcome |-> "idle"]

\* One request with any inputs; the other requests never arrive.
Init ==
    /\ instruct \in BOOLEAN
    /\ \E q \in Requests : Fresh([r \in Req |-> q], {1})
    /\ HelpersIdle /\ wave = <<>>

\* Requests the concurrent specification submits: valid requests with a
\* speaker and an instruction; request r is seeded by its parity, so requests
\* 1 and 3 carry the same seed and request 2 another.
ConcRequest(r, mode) ==
    [tts_text |-> "hello", mode_checkbox_group |-> mode, sft_dropdown |-> "spk",
     prompt_text |-> "", prompt_wav_upload |-> None, prompt_wav_record |-> None,
     instruct_text |-> "calm", seed |-> IF r % 2 = 1 THEN 7 ELSE 42,
     stream |-> TRUE, speed |-> 1]

InitConc ==
    /\ instruct = TRUE
    /\ \E m \in {pretrained_voice, natural_language_control} :
          Fresh([r \in Req |-> ConcRequest(r, IF r = 1 THEN m ELSE pretrained_voice)],
                1..NumConc)
    /\ HelpersIdle /\ wave = <<>>

\* Requests that keep the queue busy: request 1 is a valid pretrained-voice
\* request, the others ask for fast replication and bring no reference audio.
QueueRequest(r) ==
    IF r = 1 THEN ConcRequest(r, pretrained_voice)
    ELSE [ConcRequest(r, fast_replication) EXCEPT !.prompt_text = "hi"]

\* More requests than the workers and the queue hold together.
InitQueue ==
    /\ instruct = TRUE
    /\ Fresh([r \in Req |-> QueueRequest(r)], Req)
    /\ HelpersIdle /\ wave = <<>>

(* ------------------------------ actions -------------------------------- *)

\* A click on the generate button: the event joins the queue, unless the
\* queue already stores max_size waiting events, and then it is turned away.
\* Requests are numbered in their order of arrival.
Arrive(r) ==
    /\ pc[r] = "new"
    /\ \A s \in Req : s < r => pc[s] # "new"
    /\ IF Len(queue) < max_size
       THEN /\ queue' = Append(queue, r)
            /\ pc' = [pc EXCEPT ![r] = "queued"]
       ELSE /\ pc' = [pc EXCEPT ![r] = "rejected"]
            /\ UNCHANGED queue
    /\ UNCHANGED <<helperVars, instruct, conn, req, vi, diag, out, raw, call, err, log, speech, rng>>

\* The queue starts any waiting event when a worker is free.
StartOutOfOrder(r) ==
    /\ \E i \in 1..Len(queue) :
          /\ queue[i] = r
          /\ queue' = [j \in 1..(Len(queue) - 1) |-> IF j < i THEN queue[j] ELSE queue[j + 1]]
    /\ Cardinality(Running) < default_concurrency_limit
    /\ pc' = [pc EXCEPT ![r] = "validate"]
    /\ UNCHANGED <<helperVars, instruct, conn, req, vi, diag, out, raw, call, err, log, speech, rng>>

\* The queue starts its first waiting event when a worker is free.
Start(r) ==
    /\ queue # <<>>
    /\ Head(queue) = r
    /\ Cardinality(Running) < default_concurrency_limit
    /\ queue' = Tail(queue)
    /\ pc' = [pc EXCEPT ![r] = "validate"]
    /\ UNCHANGED <<helperVars, instruct, conn, req, vi, diag, out, raw, call, err, log, speech, rng>>

\* generate_audio runs its checks up to the next yield, exception or dispatch.
Validate(r) ==
    /\ pc[r] = "validate"
    /\ Resumed(r)
    /\ LET s == Scan(vi[r], req[r], instruct, <<>>)
       IN  /\ diag' = [diag EXCEPT ![r] = @ \o s.msgs]
           /\ vi' = [vi EXCEPT ![r] = s.vi]
           /\ \/ /\ s.stop = "yield"
                 /\ out' = [out EXCEPT ![r] = Append(@, Placeholder)]
                 /\ log' = [log EXCEPT ![r] = Append(@, "yield_default")]
                 /\ UNCHANGED <<pc, err>>
              \/ /\ s.stop = "raise"
                 /\ pc' = [pc EXCEPT ![r] = "failed"]
                 /\ err' = [err EXCEPT ![r] = "validate"]
                 /\ UNCHANGED <<out, log>>
              \/ /\ s.stop = "dispatch"
                 /\ pc' = [pc EXCEPT ![r] = "dispatch"]
                 /\ UNCHANGED <<out, err, log>>
    /\ UNCHANGED <<helperVars, instruct, conn, req, queue, raw, call, speech, rng>>

\* The branch of the mode: the prompt modes load and post-process the
\* reference audio, the others go straight to seeding.
Dispatch(r) ==
    /\ pc[r] = "dispatch"
    /\ \/ /\ ~UsesPrompt(req[r])
          /\ pc' = [pc EXCEPT ![r] = "seed"]
          /\ UNCHANGED <<speech, err, log>>
       \/ /\ UsesPrompt(req[r])
          /\ "ok" \in LoadWavOutcomes(PromptWav(req[r]))
          /\ speech' = [speech EXCEPT ![r] = postprocess(load_wav(PromptWav(req[r])))]
          /\ log' = [log EXCEPT ![r] = @ \o <<"load_wav", "postprocess">>]
          /\ pc' = [pc EXCEPT ![r] = "seed"]
          /\ UNCHANGED err
       \/ /\ UsesPrompt(req[r])
          /\ "raise" \in LoadWavOutcomes(PromptWav(req[r]))
          /\ pc' = [pc EXCEPT ![r] = "failed"]
          /\ err' = [err EXCEPT ![r] = "load_wav"]
          /\ log' = [log EXCEPT ![r] = Append(@, "load_wav")]
          /\ UNCHANGED speech
    /\ UNCHANGED <<helperVars, instruct, conn, req, queue, vi, diag, out, raw, call, rng>>

\* The seeding left out.
SeedMissing(r) ==
    /\ pc[r] = "seed"
    /\ pc' = [pc EXCEPT ![r] = "call"]
    /\ UNCHANGED <<helperVars, instruct, conn, req, queue, vi, diag, out, raw, call, err, log, speech, rng>>

\* set_all_random_seed(seed).
Seed(r) ==
    /\ pc[r] = "seed"
    /\ rng' = Seeded(req[r].seed)
    /\ log' = [log EXCEPT ![r] = Append(@, "set_all_random_seed")]
    /\ pc' = [pc EXCEPT ![r] = "call"]
    /\ UNCHANGED <<helperVars, instruct, conn, req, queue, vi, diag, out, raw, call, err, speech>>

\* cosyvoice.inference_*(...): the engine operation is invoked.
Call(r) ==
    /\ pc[r] = "call"
    /\ call' = [call EXCEPT ![r] = EngineCall(req[r], speech[r])]
    /\ log' = [log EXCEPT ![r] = Append(@, EngineCall(req[r], speech[r]).op)]
    /\ pc' = [pc EXCEPT ![r] = "pull"]
    /\ UNCHANGED <<helperVars, instruct, conn, req, queue, vi, diag, out, raw, err, speech, rng>>

\* The for loop asks the engine for its next chunk: the engine synthesises
\* one from its random state, or it is exhausted, or it raises.
Pull(r) ==
    /\ pc[r] = "pull"
    /\ Resumed(r)
    /\ \/ /\ Len(raw[r]) < MaxChunks
          /\ raw' = [raw EXCEPT ![r] = Append(@, RawChunk(rng))]
          /\ rng' = [rng EXCEPT !.draws = @ + 1]
          /\ pc' = [pc EXCEPT ![r] = "emit"]
          /\ UNCHANGED err
       \/ /\ pc' = [pc EXCEPT ![r] = "done"]
          /\ UNCHANGED <<raw, rng, err>>
       \/ /\ pc' = [pc EXCEPT ![r] = OnEngineError]
          /\ err' = [err EXCEPT ![r] = "engine"]
          /\ UNCHANGED <<raw, rng>>
    /\ log' = [log EXCEPT ![r] = Append(@, "next")]
    /\ UNCHANGED <<helperVars, instruct, conn, req, queue, vi, diag, out, call, speech>>

\* The loop body without its yield: the chunk is pulled and dropped.
EmitDropped(r) ==
    /\ pc[r] = "emit"
    /\ pc' = [pc EXCEPT ![r] = "pull"]
    /\ UNCHANGED <<helperVars, instruct, conn, req, queue, vi, diag, out, raw, call, err, log, speech, rng>>

\* yield (cosyvoice.sample_rate, i["tts_speech"].numpy().flatten()).
Emit(r) ==
    /\ pc[r] = "emit"
    /\ out' = [out EXCEPT ![r] = Append(@, Yielded(raw[r][Len(raw[r])]))]
    /\ log' = [log EXCEPT ![r] = Append(@, "yield")]
    /\ pc' = [pc EXCEPT ![r] = "pull"]
    /\ UNCHANGED <<helperVars, instruct, conn, req, queue, vi, diag, raw, call, err, speech, rng>>

Next ==
    \E r \in Req :
        \/ Arrive(r)
        \/ Start(r)
        \/ Validate(r)
        \/ Dispatch(r)
        \/ Seed(r)
        \/ Call(r)
        \/ Pull(r)
        \/ Emit(r)

Spec == Init /\ [][Next]_vars

SpecConc == InitConc /\ [][Next]_vars

SpecQueue == InitQueue /\ [][Next]_vars

\* The caller of a started request goes away: nobody consumes its stream.
Disconnect(r) ==
    /\ r \in Running
    /\ conn[r]
    /\ conn' = [conn EXCEPT ![r] = FALSE]
    /\ UNCHANGED <<helperVars, instruct, req, queue, pc, vi, diag, out, raw, call,
                   err, log, speech, rng>>

\* The abandoned generator is closed where it is suspended; generate_audio
\* has no try/finally, so nothing of it runs any more.
Close(r) ==
    /\ ~conn[r]
    /\ Suspended(r)
    /\ pc' = [pc EXCEPT ![r] = "closed"]
    /\ UNCHANGED <<helperVars, instruct, conn, req, queue, vi, diag, out, raw, call, err, log,
                   speech, rng>>

NextCancel ==
    \/ Next
    \/ \E r \in Req : Disconnect(r)
    \/ \E r \in Req : Close(r)

SpecCancel == Init /\ [][NextCancel]_vars

(* ------------------------------- helpers ------------------------------- *)

genVars == <<instruct, req, queue, pc, vi, diag, out, raw, call, err, log, speech,
             rng, conn>>

\* postprocess(speech), applied to the waveform and then to its own result.
ApplyPostprocess ==
    /\ ~perr
    /\ Len(passes) < MaxPasses
    /\ LET y == IF passes = <<>> THEN wave ELSE passes[Len(passes)]
       IN  IF PostRaises(y)
           THEN perr' = TRUE /\ UNCHANGED passes
           ELSE passes' = Append(passes, postprocess(y)) /\ UNCHANGED perr
    /\ UNCHANGED <<wave, field, rec, genVars>>

\* prompt_wav_recognition(prompt_wav), run when the upload or the recording
\* changes; its return value goes into the prompt_text box.
PromptWavRecognition(wav) ==
    /\ IF wav = None
       THEN /\ field' = None
            /\ rec' = [wav |-> wav, asr |-> "none", outcome |-> "returned"]
       ELSE \E o \in AsrOutcomes :
              IF o = "ok"
              THEN /\ field' = LastPart(AsrText(wav))
                   /\ rec' = [wav |-> wav, asr |-> o, outcome |-> "returned"]
              ELSE /\ rec' = [wav |-> wav, asr |-> o, outcome |-> "raised"]
                   /\ UNCHANGED field
    /\ UNCHANGED <<wave, passes, perr, genVars>>

\* No request; a waveform to post-process and a page to transcribe for.
InitHelpers ==
    /\ instruct = TRUE
    /\ Fresh([r \in Req |-> ConcRequest(r, pretrained_voice)], {})
    /\ HelpersIdle
    /\ wave \in Waves

NextHelpers ==
    \/ ApplyPostprocess
    \/ \E wav \in UploadSet \cup RecordSet : PromptWavRecognition(wav)

SpecHelpers == InitHelpers /\ [][NextHelpers]_vars

(* ------------------- the specification's vocabulary -------------------- *)

\* referenceAudio of the request: the reference waveform it carries, if any.
ReferenceAudio(q) ==
    IF q.prompt_wav_upload = None THEN q.prompt_wav_record ELSE q.prompt_wav_upload

\* Some rule marked Blocking in the table of the request's mode fires.
BlockingRuleFires(q, ins) ==
    CASE q.mode_checkbox_group = natural_language_control ->
            ins = FALSE \/ q.instruct_text = ""
      [] q.mode_checkbox_group = crosslingual ->
            \/ ins = TRUE
            \/ ReferenceAudio(q) = None
            \/ (ReferenceAudio(q) # None /\ FileRate(ReferenceAudio(q)) < 16000)
      [] q.mode_checkbox_group = pretrained_voice ->
            q.sft_dropdown = ""
      [] q.mode_checkbox_group = fast_replication ->
            \/ ReferenceAudio(q) = None
            \/ (ReferenceAudio(q) # None /\ FileRate(ReferenceAudio(q)) < 16000)
            \/ q.prompt_text = ""

Blocked(r) == pc[r] # "absent" /\ BlockingRuleFires(req[r], instruct)
Passes(r) == pc[r] # "absent" /\ ~BlockingRuleFires(req[r], instruct)

Finished(r) == pc[r] \in {"done", "failed"}
ValidationOver(r) == pc[r] \in {"dispatch", "seed", "call", "pull", "emit", "done", "failed"}

EngineOps ==
    {"inference_sft", "inference_zero_shot", "inference_cross_lingual", "inference_instruct"}

Positions(r, ops) == {i \in 1..Len(log[r]) : log[r][i] \in ops}
NumCalls(r) == Cardinality(Positions(r, EngineOps))
NumSeeds(r) == Cardinality(Positions(r, {"set_all_random_seed"}))

HasWarning(r) == \E i \in 1..Len(diag[r]) : diag[r][i].level = "Warning"
HasPlaceholder(r) == \E i \in 1..Len(out[r]) : out[r][i] = Placeholder

HasKey(r, key) == \E i \in 1..Len(diag[r]) : diag[r][i].key = key

\* A chunk carries an isFinal mark when it has a third component, the mark.
IsFinal(c) == Len(c) >= 3 /\ c[3] = TRUE

(* ------------------------------- claims -------------------------------- *)

\* C1: a request for which a Blocking rule fires gets a response of exactly
\* one chunk, the silent placeholder at the engine's sample rate, and nothing
\* after it.
C1_BlockedResponseIsOnePlaceholder ==
    \A r \in Req :
        Blocked(r) =>
            /\ Len(out[r]) <= 1
            /\ Finished(r) => out[r] = <<Placeholder>>

\* C2: when a Blocking rule fires for a request, no engine synthesis operation
\* is invoked for it and the engine seed is not applied.
C2_BlockedNeverDispatches ==
    \A r \in Req :
        Blocked(r) => call[r] = NoCall /\ NumCalls(r) = 0 /\ NumSeeds(r) = 0

\* C3: validation blocks a request (a warning is raised and the placeholder
\* yielded) if and only if a rule marked Blocking for its mode fires; advisory
\* rules alone never block.
C3_BlockedIffBlockingRule ==
    \A r \in Req :
        /\ HasWarning(r) => Blocked(r)
        /\ HasPlaceholder(r) => Blocked(r)
        /\ ValidationOver(r) /\ Blocked(r) => HasWarning(r) /\ HasPlaceholder(r)

C3_Witness ==
    \E r \in Req :
        /\ pc[r] = "dispatch"
        /\ req[r].mode_checkbox_group = pretrained_voice
        /\ req[r].sft_dropdown # ""
        /\ req[r].instruct_text # "" /\ req[r].prompt_text # ""
        /\ ReferenceAudio(req[r]) # None
        /\ diag[r] # <<>> /\ ~HasWarning(r)

\* The engine operation and arguments the mapping of the modes prescribes.
C4_ExpectedCall(q) ==
    CASE q.mode_checkbox_group = pretrained_voice ->
            [op |-> "inference_sft", tts_text |-> q.tts_text, spk |-> q.sft_dropdown,
             stream |-> q.stream, speed |-> q.speed]
      [] q.mode_checkbox_group = fast_replication ->
            [op |-> "inference_zero_shot", tts_text |-> q.tts_text,
             prompt_text |-> q.prompt_text,
             prompt_speech_16k |-> postprocess(load_wav(ReferenceAudio(q))),
             stream |-> q.stream, speed |-> q.speed]
      [] q.mode_checkbox_group = crosslingual ->
            [op |-> "inference_cross_lingual", tts_text |-> q.tts_text,
             prompt_speech_16k |-> postprocess(load_wav(ReferenceAudio(q))),
             stream |-> q.stream, speed |-> q.speed]
      [] q.mode_checkbox_group = natural_language_control ->
            [op |-> "inference_instruct", tts_text |-> q.tts_text, spk |-> q.sft_dropdown,
             instruct_text |-> q.instruct_text, stream |-> q.stream, speed |-> q.speed]

\* C4: a request that passes validation invokes exactly one engine operation,
\* the one of its mode, with the arguments of its mode only.
C4_OneCallFixedByMode ==
    \A r \in Req :
        Passes(r) =>
            /\ NumCalls(r) <= 1
            /\ NumCalls(r) = 0 <=> call[r] = NoCall
            /\ call[r] # NoCall => call[r] = C4_ExpectedCall(req[r])
            /\ pc[r] \in {"pull", "emit", "done", "failed"} => NumCalls(r) = 1

C4_Witness ==
    \E r \in Req :
        /\ Passes(r) /\ pc[r] = "done"
        /\ req[r].mode_checkbox_group = fast_replication
        /\ req[r].instruct_text # "" /\ req[r].sft_dropdown # ""
        /\ call[r].op = "inference_zero_shot"
        /\ call[r].prompt_speech_16k # load_wav(ReferenceAudio(req[r]))

\* C5: within one request the seed is applied exactly once, as the last
\* operation before the engine operation is invoked; validation, loading and
\* post-processing come before the seeding, and only pulls and yields after
\* the invocation.
C5_SeedOnceJustBeforeCall ==
    \A r \in Req :
        /\ NumSeeds(r) <= 1
        /\ \A i \in Positions(r, EngineOps) :
              /\ NumSeeds(r) = 1
              /\ i > 1 /\ log[r][i - 1] = "set_all_random_seed"
              /\ \A j \in 1..(i - 2) :
                    log[r][j] \in {"yield_default", "load_wav", "postprocess"}
              /\ \A j \in (i + 1)..Len(log[r]) : log[r][j] \in {"next", "yield"}

C5_Witness ==
    \E r \in Req :
        /\ pc[r] = "pull"
        /\ log[r] = <<"load_wav", "postprocess", "set_all_random_seed",
                      "inference_cross_lingual">>

\* C6: between a request's seeding and the end of the synthesis it seeds, the
\* engine's random state is the one that request set and advanced: no other
\* request's seeding or synthesis step comes in between.
C6_SeedThenSynthesizeIsCritical ==
    \A r \in Req :
        pc[r] \in {"call", "pull", "emit"} =>
            rng = [seed |-> req[r].seed, draws |-> Len(raw[r])]

\* C7: when the engine raises on the pull of its k-th chunk, the caller has
\* exactly the k-1 chunks produced before, then the error ends the stream:
\* nothing follows, the error is not swallowed, the engine is not called again.
C7_EngineErrorEndsStream ==
    \A r \in Req :
        Passes(r) /\ err[r] = "engine" =>
            /\ pc[r] = "failed"
            /\ Len(out[r]) = Len(raw[r])
            /\ \A i \in 1..Len(out[r]) : out[r][i][2] = raw[r][i].tts_speech[1]
            /\ log[r][Len(log[r])] = "next"
            /\ NumCalls(r) = 1

C7_Witness ==
    \E r \in Req :
        /\ Passes(r) /\ err[r] = "engine" /\ pc[r] = "failed"
        /\ Len(raw[r]) = 2 /\ Len(out[r]) = 2

\* C8: a request whose only problems are validation failures raises no error
\* out of its validation.
C8_ValidationNeverThrows ==
    \A r \in Req : Blocked(r) => err[r] # "validate"

\* C9: the chunks delivered for a request that passes validation are the raw
\* chunks of the engine, one for one and in order, each tagged with the
\* engine's sample rate, and each is delivered before the next is pulled.
C9_RelayInOrderUnbuffered ==
    \A r \in Req :
        Passes(r) =>
            /\ Len(out[r]) <= Len(raw[r])
            /\ Len(raw[r]) <= Len(out[r]) + 1
            /\ Len(raw[r]) = Len(out[r]) + 1 <=> pc[r] = "emit"
            /\ \A i \in 1..Len(out[r]) :
                  /\ out[r][i][1] = sample_rate
                  /\ out[r][i][2] = raw[r][i].tts_speech[1]

C9_Witness ==
    \E r \in Req :
        /\ Passes(r) /\ pc[r] = "emit"
        /\ Len(raw[r]) = 2 /\ Len(out[r]) = 1
        /\ raw[r][1] # raw[r][2]

C19_UploadBeforeRecording ==
    \A r \in Req :
        LET q == req[r]
            chosen == IF q.prompt_wav_upload # None THEN q.prompt_wav_upload
                      ELSE q.prompt_wav_record
        IN  pc[r] # "absent" /\ UsesPrompt(q) /\ ValidationOver(r) =>
               /\ HasKey(r, "warnings.prompt_audio_empty") <=>
                     (q.prompt_wav_upload = None /\ q.prompt_wav_record = None)
               /\ err[r] # "validate" =>
                     /\ chosen # None
                     /\ HasKey(r, "warnings.sample_rate_error") <=>
                           FileRate(chosen) < prompt_sr
               /\ call[r] # NoCall =>
                     call[r].prompt_speech_16k = postprocess(FileSamples(chosen))

C19_Witness ==
    \E r \in Req :
        /\ req[r].mode_checkbox_group = fast_replication
        /\ req[r].prompt_wav_upload = "hi.wav"
        /\ req[r].prompt_wav_record = "lo.wav"
        /\ pc[r] = "pull"
        /\ ~HasKey(r, "warnings.sample_rate_error")
        /\ call[r].prompt_speech_16k = postprocess(FileSamples("hi.wav"))
        /\ call[r].prompt_speech_16k # postprocess(FileSamples("lo.wav"))

\* C20: within one request validation strictly precedes dispatch: every
\* placeholder chunk and every diagnostic comes before the seed is applied
\* and before any engine operation, so no placeholder follows an engine chunk.
C20_ValidationBeforeDispatch ==
    /\ [](\A r \in Req :
            LET nDefault == Cardinality(Positions(r, {"yield_default"}))
            IN  /\ \A i \in 1..Len(log[r]) :
                      log[r][i] = "yield_default" <=> i <= nDefault
                /\ \A i \in 1..Len(out[r]) :
                      out[r][i] = Placeholder <=> i <= nDefault
                /\ pc[r] \in {"new", "queued", "validate"} =>
                      NumSeeds(r) = 0 /\ NumCalls(r) = 0 /\ raw[r] = <<>>)
    /\ [][\A r \in Req :
            pc[r] \in {"dispatch", "seed", "call", "pull", "emit", "done", "failed"} =>
                /\ diag'[r] = diag[r]
                /\ Cardinality(Positions(r, {"yield_default"}))' =
                      Cardinality(Positions(r, {"yield_default"}))]_vars

C20_Witness ==
    \E r \in Req :
        /\ pc[r] = "done" /\ Len(out[r]) = 3 /\ Len(diag[r]) >= 2
        /\ out[r][1] = Placeholder /\ out[r][2] # Placeholder /\ out[r][3] # Placeholder
        /\ log[r][1] = "yield_default" /\ NumSeeds(r) = 1

\* The table's rule a diagnostic belongs to; the language reminder of the
\* cross-lingual block belongs to none.
RuleOf(key) ==
    CASE key = "warnings.nlp_model_warn" -> "capability"
      [] key = "warnings.instruct_text" -> "instructionText"
      [] key = "info.prompt_wav" -> "referenceAdvisory"
      [] key = "warnings.no_crosslingual_support" -> "capability"
      [] key = "warnings.crosslingual_instruct_ignored" -> "instructionAdvisory"
      [] key = "warnings.crosslingual_prompt_audio_required" -> "referenceAudioAbsent"
      [] key = "warnings.prompt_audio_empty" -> "referenceAudioAbsent"
      [] key = "warnings.sample_rate_error" -> "sampleRate"
      [] key = "info.pretrained_voice_warning" -> "advisory"
      [] key = "warnings.pretrained_model_empty" -> "speakerId"
      [] key = "warnings.prompt_text_empty" -> "referenceText"
      [] key = "info.instruct_text_empty" -> "instructionAdvisory"
      [] OTHER -> "unlisted"

\* The rules of a mode, in the table's order.
TableOrder(mode) ==
    CASE mode = natural_language_control ->
            <<"capability", "instructionText", "referenceAdvisory">>
      [] mode = crosslingual ->
            <<"capability", "instructionAdvisory", "referenceAudioAbsent", "sampleRate">>
      [] mode = pretrained_voice ->
            <<"advisory", "speakerId">>
      [] mode = fast_replication ->
            <<"referenceAudioAbsent", "sampleRate", "referenceText", "instructionAdvisory">>

\* The table's condition of a rule for request q.
RuleFires(rule, q, ins) ==
    CASE rule = "capability" ->
            IF q.mode_checkbox_group = crosslingual THEN ins = TRUE ELSE ins = FALSE
      [] rule = "instructionText" -> q.instruct_text = ""
      [] rule = "referenceAdvisory" -> ReferenceAudio(q) # None \/ q.prompt_text # ""
      [] rule = "instructionAdvisory" -> q.instruct_text # ""
      [] rule = "referenceAudioAbsent" -> ReferenceAudio(q) = None
      [] rule = "sampleRate" ->
            ReferenceAudio(q) # None /\ FileRate(ReferenceAudio(q)) < 16000
      [] rule = "advisory" ->
            q.instruct_text # "" \/ ReferenceAudio(q) # None \/ q.prompt_text # ""
      [] rule = "speakerId" -> q.sft_dropdown = ""
      [] rule = "referenceText" -> q.prompt_text = ""

FiringRules(q, ins) ==
    SelectSeq(TableOrder(q.mode_checkbox_group), LAMBDA rule : RuleFires(rule, q, ins))

\* C18: once validation is over, the diagnostics of a request are exactly the
\* firing rules of its mode's table, each once, in the table's order.
C18_DiagnosticsFollowTable ==
    \A r \in Req :
        pc[r] # "absent" /\ ValidationOver(r) =>
            [i \in 1..Len(diag[r]) |-> RuleOf(diag[r][i].key)] =
                FiringRules(req[r], instruct)

\* C11: two requests with identical values (same seed) receive identical chunk
\* sequences, whatever ran before or runs alongside them: as far as both
\* streams have got, they agree chunk by chunk.
C11_SameRequestSameChunks ==
    \A r1, r2 \in Req :
        pc[r1] # "absent" /\ pc[r2] # "absent" /\ req[r1] = req[r2] =>
            \A i \in 1..Len(out[r1]) :
                i <= Len(out[r2]) => out[r1][i] = out[r2][i]

\* Requests that have arrived and are waiting to be started.
Waiting == {r \in Req : pc[r] = "queued"}

\* Requests the queue has handed to a worker, finished or not.
Started == {r \in Req : pc[r] \notin {"absent", "new", "queued", "rejected"}}

\* At most the configured number of requests run, and no waiting request is
\* overtaken by a later arrival (requests are numbered by arrival).
LimitAndArrivalOrder ==
    /\ Cardinality(Running) <= default_concurrency_limit
    /\ \A r \in Waiting : \A s \in Started : s < r
    /\ \A i, j \in 1..Len(queue) : i < j => queue[i] < queue[j]
    /\ Waiting = {queue[i] : i \in 1..Len(queue)}

\* C12 as stated: the limit holds, and every request that has arrived either
\* waits in the queue or was started, in arrival order.
C12_AllArrivalsWaitInOrder ==
    /\ LimitAndArrivalOrder
    /\ \A r \in Req : pc[r] \notin {"absent", "new"} => r \in Waiting \cup Started

\* C12: the number of running requests never exceeds the concurrency limit and
\* waiting requests are started in arrival order; the queue holds at most
\* max_size waiting requests, a request arriving then is turned away for good,
\* and every other arrival joins the end of the queue.
C12_LimitFifoBoundedQueue ==
    /\ [](LimitAndArrivalOrder /\ Len(queue) <= max_size)
    /\ [][\A r \in Req :
            /\ pc[r] = "new" /\ pc'[r] = "rejected" =>
                  Len(queue) = max_size /\ queue' = queue
            /\ pc[r] = "new" /\ pc'[r] # "new" /\ Len(queue) < max_size =>
                  pc'[r] = "queued" /\ queue' = Append(queue, r)
            /\ pc[r] = "rejected" => pc'[r] = "rejected"
            /\ pc[r] = "queued" /\ pc'[r] # "queued" =>
                  /\ r = Head(queue) /\ queue' = Tail(queue)
                  /\ Cardinality(Running) < default_concurrency_limit]_vars

C12_Witness ==
    \E r, s \in Req :
        /\ pc[r] = "rejected"
        /\ s > r /\ pc[s] = "queued"
        /\ Len(queue) = max_size
        /\ Cardinality(Running) = default_concurrency_limit

PassInput(k) == IF k = 1 THEN wave ELSE passes[k - 1]

SilencePad == Zeros((sample_rate * 2) \div 10)

\* C16: the output of postprocess never peaks above max_val; a trimmed signal
\* peaking above max_val comes out scaled by max_val / peak (to the integer
\* below), so its peak is max_val, and any other comes out unscaled.
C16_PeakNormalized ==
    \A k \in 1..Len(passes) :
        LET t == trim(PassInput(k))
            o == passes[k]
            peak == PeakAbs(t)
        IN  /\ PeakAbs(o) <= max_val
            /\ Len(o) = Len(t) + Len(SilencePad)
            /\ peak > max_val =>
                  /\ PeakAbs(o) = max_val
                  /\ \A i \in 1..Len(t) :
                        /\ o[i] * peak <= t[i] * max_val
                        /\ t[i] * max_val < (o[i] + 1) * peak
            /\ peak <= max_val => SubSeq(o, 1, Len(t)) = t

C16_Witness ==
    /\ wave = <<0, -16, 4>>
    /\ Len(passes) >= 1
    /\ PeakAbs(trim(wave)) = 2 * max_val
    /\ PeakAbs(passes[1]) = max_val
    /\ passes[1][1] = -max_val

\* C14: post-processing is idempotent: a second pass returns what the first
\* returned (nothing more trimmed, same peak, no second pad, same length).
C14_PostprocessIdempotent ==
    Len(passes) >= 2 => passes[2] = passes[1]

\* C15: postprocess has no error outcome for any waveform; a signal with
\* nothing left after trimming or with peak zero is returned unnormalised,
\* followed by the silence pad.
C15_PostprocessNeverRaises ==
    /\ perr = FALSE
    /\ Len(passes) >= 1 /\ PeakAbs(trim(wave)) = 0 =>
          passes[1] = trim(wave) \o SilencePad

\* C17: when the recogniser fails on the reference audio, prompt_wav_recognition
\* raises nothing and the reference-text box is left empty.
C17_RecognitionFailureNotFatal ==
    rec.asr = "failed" => rec.outcome = "returned" /\ field \in {<<>>, None}

====
